---- MODULE Spec2Model ----
(***************************************************************************)
(* Model of the scrapper crate (src/scrapper/src/lib.rs): the EchaSite     *)
(* session with its per-section cache, and data_from with its three        *)
(* closures obtain_data, id_data and compositions_data.                    *)
(*                                                                         *)
(* A string is a sequence of tokens (Str("EC Number") is a one-token       *)
(* string, <<>> is the empty string), so that trim, replace and            *)
(* concatenation are computed, not assumed.  An element's text is the      *)
(* sequence of its text nodes, each a string.                              *)
(***************************************************************************)
EXTENDS Integers, Sequences, FiniteSets, TLC

VARIABLES document, data, result, scans, first, sBlock, extracted

vars == <<document, data, result, scans, first, sBlock, extracted>>

----------------------------------------------------------------------------
(* Bounds of the model *)

MaxNodes == 3
MaxBlocks == 2
MaxScans == 2
MaxTerms == 3
MaxValues == 3

----------------------------------------------------------------------------
(* Strings *)

Str(t) == <<t>>

Empty == <<>>

Whitespace == {" ", "\n", "\t"}

RECURSIVE collect_string(_)
collect_string(texts) ==
    IF texts = <<>> THEN <<>> ELSE Head(texts) \o collect_string(Tail(texts))

trim(s) ==
    LET keep == {i \in 1..Len(s) : s[i] \notin Whitespace}
    IN  IF keep = {} THEN <<>>
        ELSE SubSeq(s, CHOOSE i \in keep : \A j \in keep : i <= j,
                       CHOOSE i \in keep : \A j \in keep : i >= j)

replace(s, t) == SelectSeq(s, LAMBDA c : c # t)

OpenClose == <<"open all", "close all">>

RECURSIVE replace_open_close(_)
replace_open_close(s) ==
    IF Len(s) < 2 THEN s
    ELSE IF SubSeq(s, 1, 2) = OpenClose
         THEN replace_open_close(SubSeq(s, 3, Len(s)))
         ELSE <<Head(s)>> \o replace_open_close(Tail(s))

NA == Str("N/A")

----------------------------------------------------------------------------
(* Subsection and Section *)

Boundary == "Boundary"
LegalEntity == "LegalEntity"
Generated == "Generated"
Other == "Other"

Subsection == {Boundary, LegalEntity, Generated, Other}

Identification == [kind |-> "Identification", sub |-> "-"]

Composition(sub) == [kind |-> "Composition", sub |-> sub]

Section == {Identification} \cup {Composition(sub) : sub \in Subsection}

ParseErr == "Err"

from_str(input) ==
    IF input = Str("Boundary Composition(s)") THEN Boundary
    ELSE IF input = Str("Legal Entity Composition(s)") THEN LegalEntity
    ELSE IF input = Str("Composition(s) generated upon use") THEN Generated
    ELSE IF input = Str("Other types of composition(s)") THEN Other
    ELSE ParseErr

\* Display as the Debug rendering (the alternative left in the comment of fmt)
Display_debug(section) == Str(section.sub)

Display(section) ==
    IF section = Composition(Boundary) THEN Str("Boundary Composition(s)")
    ELSE IF section = Composition(LegalEntity) THEN Str("Legal Entity Composition(s)")
    ELSE IF section = Composition(Generated) THEN Str("Composition(s) generated upon use")
    ELSE IF section = Composition(Other) THEN Str("Other types of composition(s)")
    ELSE Str(section.kind)

----------------------------------------------------------------------------
(* HashMap<String, String> *)

\* insert as it would be if it dropped the other entries
insert_fresh(map, k, v) == [x \in {k} |-> v]

insert(map, k, v) == [x \in (DOMAIN map) \cup {k} |-> IF x = k THEN v ELSE map[x]]

\* collect as it would be if the first entry of a key were kept
RECURSIVE collect_map_first_wins(_, _)
collect_map_first_wins(entries, map) ==
    IF entries = <<>> THEN map
    ELSE collect_map_first_wins(Tail(entries),
            IF Head(entries)[1] \in DOMAIN map THEN map
            ELSE insert(map, Head(entries)[1], Head(entries)[2]))

RECURSIVE collect_map(_, _)
collect_map(entries, map) ==
    IF entries = <<>> THEN map
    ELSE collect_map(Tail(entries), insert(map, Head(entries)[1], Head(entries)[2]))

\* unwrap_or as it would be with the empty string for a missing key
unwrap_or_empty(map, k, default) == IF k \in DOMAIN map THEN map[k] ELSE Empty

unwrap_or(map, k, default) == IF k \in DOMAIN map THEN map[k] ELSE default

----------------------------------------------------------------------------
(* obtain_data: the fields of one block.  A block is                       *)
(*   [dt : the text of each dt element, dd : the text of each dd element,  *)
(*    img : the img elements, h5 : the text of each h5 element]            *)

\* An img element is [src : the src attribute, an Option]
None == <<>>

Some(v) == <<v>>

NoSrc == [src |-> None]

Src(v) == [src |-> Some(v)]

RECURSIVE flat_map_text(_)
flat_map_text(elements) ==
    IF elements = <<>> THEN <<>> ELSE Head(elements) \o flat_map_text(Tail(elements))

key_names(data_html) ==
    LET texts == flat_map_text(data_html.dt)
    IN  [i \in 1..Len(texts) |-> replace(texts[i], ":")]

key_values(data_html) ==
    [i \in 1..Len(data_html.dd) |->
        replace(replace(trim(collect_string(data_html.dd[i])), "\n"), "\t")]

zip(a, b) ==
    LET n == IF Len(a) < Len(b) THEN Len(a) ELSE Len(b)
    IN  [i \in 1..n |-> <<a[i], b[i]>>]

img(data_html) ==
    [i \in 1..Len(data_html.img) |->
        <<Str("Image link"),
          IF data_html.img[i].src = None THEN Empty ELSE data_html.img[i].src[1]>>]

consti_num(data_html) ==
    LET texts == flat_map_text(data_html.h5)
    IN  [i \in 1..Len(texts) |-> <<Str("Constituent"), texts[i]>>]

obtain_data(data_html) ==
    collect_map(zip(key_names(data_html), key_values(data_html))
                    \o img(data_html) \o consti_num(data_html),
                <<>>)

----------------------------------------------------------------------------
(* Record *)

\* Record with the weblink left empty like pubchem_cas
Record_blank_weblink(section, image, subsection, name, substance, constitute, ec, cas, formula) ==
    [idcoordinates2D |-> NA, FragFp |-> NA, id |-> NA, weblink |-> Empty,
     structure |-> NA, section |-> section, image |-> image,
     subsection |-> subsection, name |-> name, substance |-> substance,
     constitute |-> constitute, ec |-> ec, cas |-> cas, formula |-> formula,
     pubchem_cas |-> Empty]

Record(section, image, subsection, name, substance, constitute, ec, cas, formula) ==
    [idcoordinates2D |-> NA, FragFp |-> NA, id |-> NA, weblink |-> NA,
     structure |-> NA, section |-> section, image |-> image,
     subsection |-> subsection, name |-> name, substance |-> substance,
     constitute |-> constitute, ec |-> ec, cas |-> cas, formula |-> formula,
     pubchem_cas |-> Empty]

----------------------------------------------------------------------------
(* data_from.  A document is                                               *)
(*   [anchor : the blocks matching "#sIdentification + div.sBlock",        *)
(*    nodes  : the elements matching panels_selector, in document order]   *)
(* and a node is [name : "h4" or "div", text : the text of an h4,          *)
(*   title : the text of each h4.panel-title of a panel,                   *)
(*   blocks : the div.sBlock elements of a panel].                         *)

Ok(v) == [ok |-> TRUE, v |-> v]

Panicked(msg) == [ok |-> FALSE, v |-> msg]

\* id_record with the EC and CAS keys exchanged
id_record_swapped(wrap) ==
    Record(Str("Identification"),
           unwrap_or(wrap, Str("Image link"), NA),
           NA,
           unwrap_or(wrap, Str("Display Name"), NA),
           unwrap_or(wrap, Str("Display Name"), NA),
           unwrap_or(wrap, Str("Constituent"), NA),
           unwrap_or(wrap, Str("CAS Number"), NA),
           unwrap_or(wrap, Str("EC Number"), NA),
           unwrap_or(wrap, Str("Molecular formula"), NA))

id_record(wrap) ==
    Record(Str("Identification"),
           unwrap_or(wrap, Str("Image link"), NA),
           NA,
           unwrap_or(wrap, Str("Display Name"), NA),
           unwrap_or(wrap, Str("Display Name"), NA),
           unwrap_or(wrap, Str("Constituent"), NA),
           unwrap_or(wrap, Str("EC Number"), NA),
           unwrap_or(wrap, Str("CAS Number"), NA),
           unwrap_or(wrap, Str("Molecular formula"), NA))

\* id_data as it would be if a missing anchor gave an all-sentinel Record
id_data_default(doc) ==
    IF doc.anchor = <<>>
    THEN Ok(<<id_record(<<>>)>>)
    ELSE Ok(<<id_record(obtain_data(Head(doc.anchor)))>>)

id_data(doc) ==
    IF doc.anchor = <<>>
    THEN Panicked("Problem obtaining identification html")
    ELSE Ok(<<id_record(obtain_data(Head(doc.anchor)))>>)

header_text(node) ==
    replace_open_close(collect_string(
        [i \in 1..Len(node.text) |->
            replace(replace(trim(node.text[i]), "\n"), "\t")]))

\* scan as it would be if an unparsable header kept the running state
RECURSIVE scan_continue(_, _)
scan_continue(state, nodes) ==
    IF nodes = <<>> THEN <<>>
    ELSE LET node == Head(nodes)
             parsed == IF node.name = "h4" THEN from_str(header_text(node))
                       ELSE state.sub
             next == IF parsed = ParseErr THEN state ELSE Composition(parsed)
         IN  <<<<next, node>>>> \o scan_continue(next, Tail(nodes))

RECURSIVE scan(_, _)
scan(state, nodes) ==
    IF nodes = <<>> THEN <<>>
    ELSE LET node == Head(nodes)
             parsed == IF node.name = "h4" THEN from_str(header_text(node))
                       ELSE state.sub
         IN  IF parsed = ParseErr THEN <<>>
             ELSE <<<<Composition(parsed), node>>>>
                      \o scan(Composition(parsed), Tail(nodes))

sorted_panels_data(doc) ==
    SelectSeq(scan(Composition(Other), doc.nodes), LAMBDA e : e[2].name # "h4")

panel_title(node) ==
    LET texts == flat_map_text(node.title)
        trimmed == [i \in 1..Len(texts) |-> trim(texts[i])]
    IN  collect_string(SelectSeq(trimmed, LAMBDA title : title # Empty))

composition_record(subsection, wrap) ==
    Record(Str("Composition(s)"),
           unwrap_or(wrap, Str("Image link"), NA),
           Display(subsection),
           unwrap_or(wrap, Str("Name"), NA),
           unwrap_or(wrap, Str("Reference substance name"), NA),
           unwrap_or(wrap, Str("Constituent"), NA),
           unwrap_or(wrap, Str("EC Number"), NA),
           unwrap_or(wrap, Str("CAS Number"), NA),
           unwrap_or(wrap, Str("Molecular formula"), NA))

\* panel_records with the blocks of a panel taken last to first
panel_records_reversed(subsection, node) ==
    [i \in 1..Len(node.blocks) |->
        composition_record(subsection,
            insert(obtain_data(node.blocks[Len(node.blocks) + 1 - i]),
                   Str("Name"), panel_title(node)))]

\* panel_records as it would be if the title were inserted only when the
\* block has no "Name" pair
panel_records_keep_name(subsection, node) ==
    [i \in 1..Len(node.blocks) |->
        composition_record(subsection,
            IF Str("Name") \in DOMAIN obtain_data(node.blocks[i])
            THEN obtain_data(node.blocks[i])
            ELSE insert(obtain_data(node.blocks[i]), Str("Name"), panel_title(node)))]

panel_records(subsection, node) ==
    [i \in 1..Len(node.blocks) |->
        composition_record(subsection,
            insert(obtain_data(node.blocks[i]), Str("Name"), panel_title(node)))]

RECURSIVE flatten(_)
flatten(vecs) ==
    IF vecs = <<>> THEN <<>> ELSE Head(vecs) \o flatten(Tail(vecs))

\* constituent_data as it would be without the filter on the subsection
constituent_data_unfiltered(doc, subsection_enum) ==
    LET selected == sorted_panels_data(doc)
    IN  flatten([i \in 1..Len(selected) |->
                    panel_records(selected[i][1], selected[i][2])])

constituent_data(doc, subsection_enum) ==
    LET selected == SelectSeq(sorted_panels_data(doc),
                              LAMBDA e : e[1] = subsection_enum)
    IN  flatten([i \in 1..Len(selected) |->
                    panel_records(selected[i][1], selected[i][2])])

compositions_data(doc, subsection_enum) == Ok(constituent_data(doc, subsection_enum))

data_from(doc, section) ==
    IF section = Identification THEN id_data(doc)
    ELSE compositions_data(doc, Composition(section.sub))

----------------------------------------------------------------------------
(* The documents of the model *)

SeqUpTo(S, n) == UNION {[1..k -> S] : k \in 0..n}

Header(text) == [name |-> "h4", text |-> text, title |-> <<>>, blocks |-> <<>>]

Panel(title, blocks) == [name |-> "div", text |-> <<>>, title |-> title, blocks |-> blocks]

HeaderBoundary == Header(<<Str("Boundary Composition(s)")>>)

HeaderLegalEntity ==
    Header(<<<<"\n", "\t", "Legal Entity Composition(s)", "\n">>,
             Str("open all"), Str("close all")>>)

HeaderGenerated == Header(<<<<" ", "Composition(s) generated upon use">>, Str("\n")>>)

HeaderOther == Header(<<Str("Other types of composition(s)")>>)

HeaderUnknown == Header(<<Str("Substance composition")>>)

HeaderHalfDecorated == Header(<<Str("Boundary Composition(s)"), Str("open all")>>)

Headers == {HeaderBoundary, HeaderLegalEntity, HeaderUnknown}

FieldKeys ==
    <<"Display Name", "Name", "Reference substance name",
      "EC Number", "CAS Number", "Molecular formula">>

FieldValue(key) ==
    CASE key = "Display Name" -> "water"
      [] key = "Name" -> "block name"
      [] key = "Reference substance name" -> "oxidane"
      [] key = "EC Number" -> "201-000-0"
      [] key = "CAS Number" -> "1-2-3"
      [] key = "Molecular formula" -> "H2O"

Images == {<<>>, <<Src(Str("/img/1.png"))>>}

Markers == {<<>>, <<<<Str("Constituent 1")>>>>}

FieldBlock(keys, image, marker) ==
    LET present == SelectSeq(FieldKeys, LAMBDA k : k \in keys)
    IN  [dt  |-> [i \in 1..Len(present) |-> <<<<present[i], ":">>>>],
         dd  |-> [i \in 1..Len(present) |-> <<<<"\n", "\t", FieldValue(present[i]), "\n">>>>],
         img |-> image,
         h5  |-> marker]

FieldBlocks ==
    {FieldBlock(keys, image, marker) :
        keys \in SUBSET {"Display Name", "Reference substance name",
                         "EC Number", "CAS Number", "Molecular formula"},
        image \in Images, marker \in Markers}

Block1 == FieldBlock({"Name", "EC Number"}, <<>>, <<>>)

Block2 ==
    FieldBlock({"Reference substance name", "CAS Number"},
               <<Src(Str("/img/1.png"))>>, <<<<Str("Constituent 1")>>>>)

Block3 ==
    FieldBlock({"Display Name", "Molecular formula"},
               <<NoSrc>>, <<<<Str("Constituent 1")>>, <<Str("Constituent 2")>>>>)

TitleA == <<<<<<"\n", " ">>, <<" ", "A", "\n">>>>>>

TitleB == <<<<Str("B")>>>>

TitleBlank == <<<<Str(" ")>>>>

Panels == {Panel(TitleA, <<Block1>>), Panel(TitleB, <<Block2, Block3>>)}

\* Documents that vary the order of headers and panels
StructDocs ==
    {[anchor |-> <<Block3, Block1>>, nodes |-> nodes] :
        nodes \in SeqUpTo(Headers \cup Panels, MaxNodes)}

HeadedTitles ==
    {<<HeaderGenerated, <<>>>>, <<HeaderOther, TitleA \o TitleB>>,
     <<HeaderHalfDecorated, TitleA>>, <<HeaderGenerated, TitleBlank>>,
     <<HeaderLegalEntity, TitleB>>}

\* Documents without the identification anchor that vary one panel
PanelDocs ==
    {[anchor |-> <<>>, nodes |-> <<ht[1], Panel(ht[2], blocks)>>] :
        ht \in HeadedTitles, blocks \in SeqUpTo({Block1, Block2}, MaxBlocks)}

\* Documents that vary the fields of one block
FieldDocs ==
    {[anchor |-> <<block>>, nodes |-> <<HeaderBoundary, Panel(TitleA, <<block>>)>>] :
        block \in FieldBlocks}

Docs == StructDocs \cup PanelDocs \cup FieldDocs

----------------------------------------------------------------------------
(* EchaSite *)

Err(e) == [ok |-> FALSE, v |-> e]

\* The outcome of the latest get_constituents call: hit tells whether it was
\* answered from the cache.
NoResult == [section |-> Identification, outcome |-> "none", hit |-> FALSE, v |-> <<>>]

Returned(section, hit, v) == [section |-> section, outcome |-> "returned", hit |-> hit, v |-> v]

Panic(section, msg) == [section |-> section, outcome |-> "panic", hit |-> FALSE, v |-> msg]

\* The block handed to obtain_data on its own, and what the call returned
NoBlock == [dt |-> <<>>, dd |-> <<>>, img |-> <<>>, h5 |-> <<>>]

NotCalled == [called |-> FALSE, ok |-> FALSE, v |-> <<>>]

Called(res) == [called |-> TRUE, ok |-> res.ok, v |-> res.v]

\* fetch_document: an error, or the parsed body
fetch_document(doc) == doc = Err("fetch error") \/ doc \in {Ok(html) : html \in Docs}

\* EchaSite::new: the fetch result is stored as it is, the cache is empty.
\* scans counts the data_from calls per section, first keeps what the first
\* completed get of each section returned.
Init ==
    /\ fetch_document(document)
    /\ data = <<>>
    /\ result = NoResult
    /\ scans = [s \in Section |-> 0]
    /\ first = <<>>
    /\ sBlock = NoBlock
    /\ extracted = NotCalled

Remember(section, v) == IF section \in DOMAIN first THEN first ELSE first @@ (section :> v)

\* get_constituents as it would be without the cache lookup
get_constituents_rescan(section) ==
    IF ~document.ok
    THEN /\ result' = Panic(section, "Couldn't obtain html body")
         /\ UNCHANGED <<document, data, scans, first>>
    ELSE /\ scans[section] < MaxScans
         /\ scans' = [scans EXCEPT ![section] = @ + 1]
         /\ \E new_data \in {data_from(document.v, section)} :
                IF new_data.ok
                THEN /\ data' = insert(data, section, new_data.v)
                     /\ result' = Returned(section, FALSE, new_data.v)
                     /\ first' = Remember(section, new_data.v)
                ELSE /\ result' = Panic(section, new_data.v)
                     /\ UNCHANGED <<data, first>>
         /\ UNCHANGED document

\* get_constituents as it would be if a fetch error gave an empty sequence
get_constituents_lenient(section) ==
    IF section \in DOMAIN data
    THEN /\ result' = Returned(section, TRUE, data[section])
         /\ first' = Remember(section, data[section])
         /\ UNCHANGED <<document, data, scans>>
    ELSE IF ~document.ok
    THEN /\ data' = insert(data, section, <<>>)
         /\ result' = Returned(section, FALSE, <<>>)
         /\ first' = Remember(section, <<>>)
         /\ UNCHANGED <<document, scans>>
    ELSE /\ scans[section] < MaxScans
         /\ scans' = [scans EXCEPT ![section] = @ + 1]
         /\ \E new_data \in {data_from(document.v, section)} :
                IF new_data.ok
                THEN /\ data' = insert(data, section, new_data.v)
                     /\ result' = Returned(section, FALSE, new_data.v)
                     /\ first' = Remember(section, new_data.v)
                ELSE /\ result' = Panic(section, new_data.v)
                     /\ UNCHANGED <<data, first>>
         /\ UNCHANGED document

\* scans < MaxScans bounds the calls that reach data_from; data_from is
\* evaluated once per call.
get_constituents(section) ==
    IF section \in DOMAIN data
    THEN /\ result' = Returned(section, TRUE, data[section])
         /\ first' = Remember(section, data[section])
         /\ UNCHANGED <<document, data, scans>>
    ELSE IF ~document.ok
    THEN /\ result' = Panic(section, "Couldn't obtain html body")
         /\ UNCHANGED <<document, data, scans, first>>
    ELSE /\ scans[section] < MaxScans
         /\ scans' = [scans EXCEPT ![section] = @ + 1]
         /\ \E new_data \in {data_from(document.v, section)} :
                IF new_data.ok
                THEN /\ data' = insert(data, section, new_data.v)
                     /\ result' = Returned(section, FALSE, new_data.v)
                     /\ first' = Remember(section, new_data.v)
                ELSE /\ result' = Panic(section, new_data.v)
                     /\ UNCHANGED <<data, first>>
         /\ UNCHANGED document

Next ==
    /\ \E section \in Section : get_constituents(section)
    /\ UNCHANGED <<sBlock, extracted>>

Spec == Init /\ [][Next]_vars

----------------------------------------------------------------------------
(* obtain_data on its own: one block, one call *)

\* Term elements: one text node each, but for the last, whose label is split
\* by an inline child into two text nodes
Terms ==
    {<<<<"EC Number", ":">>>>, <<<<"Image link", ":">>>>, <<<<"Constituent", ":">>>>,
     <<Str("Molecular "), <<"formula", ":">>>>}

Definitions == {<<<<"\n", "\t", "201-000-0", "\n">>>>, <<Str("1-2-3")>>}

ImageLists == {<<>>, <<NoSrc, Src(Str("/img/1.png"))>>}

\* Constituent markers: none, one, two, and two with the text of the final
\* one split by an inline child into two text nodes
MarkerLists ==
    {<<>>, <<<<Str("Constituent 1")>>>>,
     <<<<Str("Constituent 1")>>, <<Str("Constituent 2")>>>>,
     <<<<Str("Constituent 1")>>, <<Str("Constituent "), Str("3")>>>>}

ExtractBlocks ==
    {[dt |-> dt, dd |-> dd, img |-> image, h5 |-> marker] :
        dt \in SeqUpTo(Terms, MaxTerms), dd \in SeqUpTo(Definitions, MaxValues),
        image \in ImageLists, marker \in MarkerLists}

InitExtract ==
    /\ document = Err("fetch error")
    /\ data = <<>>
    /\ result = NoResult
    /\ scans = [s \in Section |-> 0]
    /\ first = <<>>
    /\ sBlock \in ExtractBlocks
    /\ extracted = NotCalled

\* obtain_data never returns Err: no step of it is fallible
call_obtain_data ==
    /\ ~extracted.called
    /\ extracted' = Called(Ok(obtain_data(sBlock)))
    /\ UNCHANGED <<document, data, result, scans, first, sBlock>>

NextExtract == call_obtain_data

SpecExtract == InitExtract /\ [][NextExtract]_vars

----------------------------------------------------------------------------
(* Vocabulary of the properties *)

Nodes == IF document.ok THEN document.v.nodes ELSE <<>>

IsHeader(i) == Nodes[i].name = "h4"

IsPanel(i) == Nodes[i].name # "h4"

Parsed(i) == from_str(header_text(Nodes[i]))

Unparsed(i) == IsHeader(i) /\ Parsed(i) = ParseErr

Last(S) == CHOOSE i \in S : \A j \in S : j <= i

\* The subsection of the most recent header before node i that parsed, Other if none
RecentParsed(i) ==
    LET good == {j \in 1..(i - 1) : IsHeader(j) /\ Parsed(j) # ParseErr}
    IN  IF good = {} THEN Other ELSE Parsed(Last(good))

Cached(section) == section \in DOMAIN data

\* The latest get was get(section) and it returned result.v
Returns(section) == result.outcome = "returned" /\ result.section = section

\* The Records of the panels at the indices idx, in the order of idx
RecordsOfPanels(idx, sub) ==
    flatten([k \in 1..Len(idx) |-> panel_records(Composition(sub), Nodes[idx[k]])])

Indices == [i \in 1..Len(Nodes) |-> i]

----------------------------------------------------------------------------
\* C1: once a get(s) has returned, every get(s) returns the sequence the first
\* one returned, whatever gets of other sections lie in between, and the
\* document has been scanned for s exactly once.
C1_RepeatedGetIsCached ==
    /\ \A s \in DOMAIN first : scans[s] = 1
    /\ result.outcome = "returned" => result.v = first[result.section]

\* A get answered from the cache, after gets of at least two other sections
C1_Witness ==
    /\ result.outcome = "returned" /\ result.hit /\ result.v # <<>>
    /\ Cardinality(DOMAIN data) >= 3

\* C2 (as stated): every panel is tagged with the subsection of the most recent
\* preceding header that parsed (Other if none), and get(Composition(s))
\* returns the Records of exactly the panels tagged s.
C2_EveryPanelTagged ==
    \A sub \in Subsection :
        Returns(Composition(sub)) =>
            result.v =
                RecordsOfPanels(
                    SelectSeq(Indices, LAMBDA i : IsPanel(i) /\ RecentParsed(i) = sub),
                    sub)

\* C3: when a header does not parse, the scan ends at the first such header:
\* for every s, get(Composition(s)) returns the Records of the panels tagged s
\* that precede that header and nothing of the panels after it, also under a
\* later valid header, and the get returns rather than fails.
C3_ScanStopsAtUnparsedHeader ==
    /\ \A sub \in Subsection : \A j \in 1..Len(Nodes) :
          (Returns(Composition(sub)) /\ Unparsed(j) /\ (\A h \in 1..(j - 1) : ~Unparsed(h))) =>
              result.v =
                  RecordsOfPanels(
                      SelectSeq(Indices,
                          LAMBDA i : i < j /\ IsPanel(i) /\ RecentParsed(i) = sub),
                      sub)
    /\ (document.ok /\ result.section \in DOMAIN scans /\ result.section # Identification
            /\ result.outcome # "none") => result.outcome = "returned"

\* An unparsed header, then a valid "Legal Entity Composition(s)" header with a
\* panel of blocks under it; get(Composition(LegalEntity)) returned nothing.
C3_Witness ==
    /\ document.ok
    /\ \E j, k, i \in 1..Len(Nodes) :
          /\ j < k /\ k < i
          /\ Unparsed(j)
          /\ IsHeader(k) /\ Parsed(k) = LegalEntity
          /\ IsPanel(i) /\ Nodes[i].blocks # <<>>
    /\ result = Returned(Composition(LegalEntity), FALSE, <<>>)

----------------------------------------------------------------------------
(* Vocabulary of the properties about Records *)

\* The tag the scan gives panel i: none once a header before it failed to parse
TagOf(i) ==
    IF \E h \in 1..(i - 1) : Unparsed(h) THEN "NoTag" ELSE RecentParsed(i)

\* The blocks of the panels tagged sub, as <<panel index, block index>>
Pairs(sub) ==
    UNION {{<<i, b>> : b \in 1..Len(Nodes[i].blocks)} :
              i \in {n \in 1..Len(Nodes) : IsPanel(n) /\ TagOf(n) = sub}}

\* The position of the pair p in document order among the pairs P
Rank(P, p) ==
    Cardinality({q \in P : q[1] < p[1] \/ (q[1] = p[1] /\ q[2] <= p[2])})

Field(raw, key) == IF Str(key) \in DOMAIN raw THEN raw[Str(key)] ELSE NA

\* The fields the Record of block p is built from
WrapOf(p) == obtain_data(Nodes[p[1]].blocks[p[2]])

NamedWrapOf(p) ==
    (Str("Name") :> panel_title(Nodes[p[1]])) @@ WrapOf(p)

HasAnchor == document.ok /\ document.v.anchor # <<>>

IdRaw == obtain_data(Head(document.v.anchor))

----------------------------------------------------------------------------
\* C4: what get(Composition(s)) returns is the concatenation, over the panels tagged s in
\* document order, of one Record per block in document order within the panel:
\* as many Records as blocks, the Record of each block at the block's position.
C4_OneRecordPerBlockInOrder ==
    \A sub \in Subsection :
        Returns(Composition(sub)) =>
            \A P \in {Pairs(sub)} :
                /\ Len(result.v) = Cardinality(P)
                /\ \A p \in P :
                      result.v[Rank(P, p)] =
                          composition_record(Composition(sub), NamedWrapOf(p))

\* A "Boundary Composition(s)" header followed by two panels with different
\* blocks: get(Composition(Boundary)) returned a Record per block.
C4_Witness ==
    /\ document.ok /\ Len(Nodes) = 3
    /\ IsHeader(1) /\ Parsed(1) = Boundary /\ IsPanel(2) /\ IsPanel(3)
    /\ Nodes[2] # Nodes[3]
    /\ result.section = Composition(Boundary) /\ result.outcome = "returned"
    /\ Len(result.v) = Len(Nodes[2].blocks) + Len(Nodes[3].blocks)
    /\ Len(result.v) >= 2 /\ result.v[1] # result.v[Len(result.v)]

\* C5: with the identification anchor present, get(Identification) returns one
\* Record: section "Identification", subsection the sentinel, name and substance
\* the "Display Name" value, ec, cas, formula, image, constituent the values of
\* their keys, "N/A" for an absent key; the same Record as for the document
\* without any header or panel.
C5_IdentificationRecord ==
    HasAnchor =>
        /\ (result.section = Identification /\ result.outcome # "none")
              => result.outcome = "returned"
        /\ Returns(Identification) =>
              \A recs \in {result.v} : \A r \in {recs[1]} : \A raw \in {IdRaw} :
                  /\ Len(recs) = 1
                  /\ r.section = Str("Identification")
                  /\ r.subsection = NA
                  /\ r.name = Field(raw, "Display Name")
                  /\ r.substance = Field(raw, "Display Name")
                  /\ r.ec = Field(raw, "EC Number")
                  /\ r.cas = Field(raw, "CAS Number")
                  /\ r.formula = Field(raw, "Molecular formula")
                  /\ r.image = Field(raw, "Image link")
                  /\ r.constitute = Field(raw, "Constituent")
                  /\ recs = id_data([anchor |-> document.v.anchor, nodes |-> <<>>]).v

\* The identification block with EC Number, CAS Number and Molecular formula
\* only, no image, no constituent marker
C5_Witness ==
    /\ HasAnchor /\ Nodes # <<>>
    /\ DOMAIN IdRaw = {Str("EC Number"), Str("CAS Number"), Str("Molecular formula")}
    /\ result.section = Identification /\ result.outcome = "returned"
    /\ Len(result.v) = 1
    /\ result.v[1].ec = Str("201-000-0") /\ result.v[1].cas = Str("1-2-3")
    /\ result.v[1].formula = Str("H2O")
    /\ result.v[1].image = NA /\ result.v[1].constitute = NA

IdKeys ==
    [image |-> "Image link", name |-> "Display Name", substance |-> "Display Name",
     constitute |-> "Constituent", ec |-> "EC Number", cas |-> "CAS Number",
     formula |-> "Molecular formula"]

CompositionKeys ==
    [image |-> "Image link", name |-> "Name", substance |-> "Reference substance name",
     constitute |-> "Constituent", ec |-> "EC Number", cas |-> "CAS Number",
     formula |-> "Molecular formula"]

\* C6: a missing field is never fatal: a get of a Composition section returns,
\* a get of Identification returns when the anchor exists, and each field of
\* each Record built is "N/A" when its key is absent from the fields of its
\* block and the extracted value otherwise.
C6_MissingFieldGivesSentinel ==
    /\ (document.ok /\ result.outcome = "panic")
          => (result.section = Identification /\ ~HasAnchor)
    /\ Returns(Identification) =>
          \A raw \in {IdRaw} : \A f \in DOMAIN IdKeys :
              result.v[1][f] =
                  IF Str(IdKeys[f]) \in DOMAIN raw THEN raw[Str(IdKeys[f])] ELSE NA
    /\ \A sub \in Subsection :
          Returns(Composition(sub)) =>
              \A P \in {Pairs(sub)} : \A p \in P :
                  \A r \in {result.v[Rank(P, p)]} : \A wrap \in {NamedWrapOf(p)} :
                      \A f \in DOMAIN CompositionKeys :
                          r[f] = IF Str(CompositionKeys[f]) \in DOMAIN wrap
                                 THEN wrap[Str(CompositionKeys[f])] ELSE NA

\* One block, some of its keys absent and some present, built into a Record of
\* Identification and into a Record of a Composition section
C6_Witness ==
    /\ Cached(Identification) /\ Returns(Composition(Boundary))
    /\ Len(result.v) = 1
    /\ data[Identification][1].ec = NA /\ data[Identification][1].cas = Str("1-2-3")
    /\ data[Identification][1].image = NA
    /\ result.v[1].ec = NA /\ result.v[1].cas = Str("1-2-3")
    /\ result.v[1].substance = NA
    /\ result.v[1].constitute = Str("Constituent 1")

\* C7: a session whose fetch failed has an empty cache in every state, and every
\* get on it panics: none returns a sequence, none scans.
C7_FetchErrorIsFatal ==
    ~document.ok =>
        /\ data = <<>>
        /\ result.outcome \in {"none", "panic"}
        /\ \A s \in Section : scans[s] = 0

\* A get on a session whose fetch failed
C7_Witness ==
    /\ ~document.ok
    /\ result = Panic(Composition(LegalEntity), "Couldn't obtain html body")

\* C8: without the identification anchor, get(Identification) panics: it
\* returns no Record, Identification never enters the cache, and the step
\* leaves the cache as it was.
C8_MissingAnchorIsFatal ==
    /\ []((document.ok /\ ~HasAnchor) => ~Cached(Identification))
    /\ [][(document.ok /\ ~HasAnchor /\ result'.section = Identification)
            => (result'.outcome = "panic" /\ data' = data)]_vars

\* get(Identification) panicked on a session that had cached Records
C8_Witness ==
    /\ document.ok /\ ~HasAnchor
    /\ result.section = Identification /\ result.outcome = "panic"
    /\ \E s \in DOMAIN data : data[s] # <<>>

\* C9: the cache only grows: its keys are the Sections a get has returned for
\* (at most five), a step keeps every entry as it is, adds at most the entry of
\* the Section asked for, and leaves the document alone.
C9_CacheOnlyGrows ==
    /\ [](DOMAIN data = DOMAIN first /\ Cardinality(DOMAIN data) <= 5)
    /\ [][/\ document' = document
          /\ \A s \in DOMAIN data : s \in DOMAIN data' /\ data'[s] = data[s]
          /\ \A s \in DOMAIN data' : s \in DOMAIN data \/ s = result'.section]_vars

\* All five Sections cached, some with Records
C9_Witness ==
    /\ Cardinality(DOMAIN data) = 5
    /\ \E s \in DOMAIN data : data[s] # <<>>

CanonicalLabel(sub) ==
    CASE sub = Boundary -> Str("Boundary Composition(s)")
      [] sub = LegalEntity -> Str("Legal Entity Composition(s)")
      [] sub = Generated -> Str("Composition(s) generated upon use")
      [] sub = Other -> Str("Other types of composition(s)")

\* C10: the subsection of every Record a get returns is one of the four labels
\* or the marker of Identification Records; a Record of Composition(s) carries
\* the label of s, which parses back to s, and so does the rendering of every s.
C10_SubsectionIsCanonical ==
    /\ result.outcome = "returned" =>
          \A k \in 1..Len(result.v) :
              /\ result.v[k].subsection
                    \in {CanonicalLabel(sub) : sub \in Subsection} \cup {NA}
              /\ result.section # Identification =>
                    /\ result.v[k].subsection = CanonicalLabel(result.section.sub)
                    /\ from_str(result.v[k].subsection) = result.section.sub
    /\ \A sub \in Subsection : from_str(Display(Composition(sub))) = sub

\* Records of Identification in the cache, Records of Composition(LegalEntity)
\* returned
C10_Witness ==
    /\ Cached(Identification) /\ data[Identification][1].subsection = NA
    /\ Returns(Composition(LegalEntity)) /\ result.v # <<>>
    /\ result.v[1].subsection = Str("Legal Entity Composition(s)")

----------------------------------------------------------------------------
(* C11 *)

\* The fields of a Record that no closure of data_from fills from the document
Sentinelled(r) ==
    /\ r.idcoordinates2D = NA /\ r.FragFp = NA /\ r.id = NA
    /\ r.weblink = NA /\ r.structure = NA

\* C11 as stated: every Record a get returns, for Identification and for
\* every Composition subsection, has weblink, idcoordinates2D, FragFp, id,
\* structure and pubchem_cas all equal to "N/A".
C11_PassthroughAllSentinel ==
    result.outcome = "returned" =>
        \A k \in 1..Len(result.v) :
            Sentinelled(result.v[k]) /\ result.v[k].pubchem_cas = NA

\* C11 amended: every Record a get returns, for Identification and for every
\* Composition subsection, has weblink, idcoordinates2D, FragFp, id and
\* structure equal to "N/A", and pubchem_cas equal to the empty string.
C11_PassthroughDefaults ==
    result.outcome = "returned" =>
        \A k \in 1..Len(result.v) :
            Sentinelled(result.v[k]) /\ result.v[k].pubchem_cas = Empty

\* An Identification Record in the cache and Composition(Boundary) Records
\* returned, with their passthrough fields as built
C11_Witness ==
    /\ Cached(Identification)
    /\ data[Identification][1].weblink = NA
    /\ data[Identification][1].pubchem_cas = Empty
    /\ Returns(Composition(Boundary)) /\ result.v # <<>>
    /\ result.v[1].weblink = NA /\ result.v[1].pubchem_cas = Empty

----------------------------------------------------------------------------
(* C12 *)

RawFields == extracted.v

\* The label of a term element: its whole text without the colons
Label(term) == replace(collect_string(term), ":")

\* The value of a definition element: its whole text, trimmed, without
\* newlines and tabs
Value(definition) == replace(replace(trim(collect_string(definition)), "\n"), "\t")

PairCount ==
    IF Len(sBlock.dt) < Len(sBlock.dd) THEN Len(sBlock.dt) ELSE Len(sBlock.dd)

\* The key is written again after the pairs, by an image or a marker
WrittenLater(key) ==
    \/ key = Str("Image link") /\ sBlock.img # <<>>
    \/ key = Str("Constituent") /\ flat_map_text(sBlock.h5) # <<>>

\* C12 as stated: the call raises no error, and RawFields holds, for every
\* i up to min(m, n), the label of the i-th term element paired with the
\* value of the i-th definition element (unless a later insertion rewrites
\* that label), and no pair beyond min(m, n), whatever the number of text
\* nodes of a term element.
C12_PairsByElement ==
    extracted.called =>
        /\ extracted.ok
        /\ \A i \in 1..PairCount :
              \/ WrittenLater(Label(sBlock.dt[i]))
              \/ \E j \in (i + 1)..PairCount : Label(sBlock.dt[j]) = Label(sBlock.dt[i])
              \/ /\ Label(sBlock.dt[i]) \in DOMAIN RawFields
                 /\ RawFields[Label(sBlock.dt[i])] = Value(sBlock.dd[i])
        /\ \A key \in DOMAIN RawFields :
              \/ key \in {Str("Image link"), Str("Constituent")}
              \/ \E i \in 1..PairCount : key = Label(sBlock.dt[i])

----------------------------------------------------------------------------
(* C13 *)

\* The three streams of entries of the block, as obtain_data forms them: a
\* marker gives one entry per text node
PairEntries == zip(key_names(sBlock), key_values(sBlock))

ImageEntries == img(sBlock)

ConstituentEntries == consti_num(sBlock)

HasKey(entries, key) == \E i \in 1..Len(entries) : entries[i][1] = key

\* The value of the last entry of the stream with that key
LastValue(entries, key) ==
    entries[CHOOSE i \in 1..Len(entries) :
                /\ entries[i][1] = key
                /\ \A j \in (i + 1)..Len(entries) : entries[j][1] # key][2]

EntryKeys(entries) == {entries[i][1] : i \in 1..Len(entries)}

\* C13: RawFields holds exactly the keys of the entries, and for each key the
\* value of its last insertion in the order term/value pairs, image entries,
\* constituent entries: the last constituent entry if there is one, else the
\* last image entry with that key, else the last pair with that key.
C13_LastWriteWins ==
    extracted.called =>
        /\ DOMAIN RawFields =
              EntryKeys(PairEntries) \cup EntryKeys(ImageEntries)
                  \cup EntryKeys(ConstituentEntries)
        /\ \A key \in DOMAIN RawFields :
              RawFields[key] =
                  IF HasKey(ConstituentEntries, key)
                  THEN LastValue(ConstituentEntries, key)
                  ELSE IF HasKey(ImageEntries, key)
                  THEN LastValue(ImageEntries, key)
                  ELSE LastValue(PairEntries, key)
        /\ sBlock.img # <<>> =>
              RawFields[Str("Image link")] =
                  IF sBlock.img[Len(sBlock.img)].src = None THEN Empty
                  ELSE sBlock.img[Len(sBlock.img)].src[1]
        /\ (sBlock.h5 # <<>> /\ \A i \in 1..Len(sBlock.h5) : Len(sBlock.h5[i]) = 1) =>
              RawFields[Str("Constituent")] = sBlock.h5[Len(sBlock.h5)][1]

\* A block whose terms are "EC Number" twice and "Image link", each with a
\* value, with an image and two markers: the later "EC Number" value, the
\* image source and the final marker are in RawFields
C13_Witness ==
    /\ extracted.called
    /\ sBlock.dt = <<<<<<"EC Number", ":">>>>, <<<<"EC Number", ":">>>>,
                     <<<<"Image link", ":">>>>>>
    /\ sBlock.dd = <<<<Str("1-2-3")>>, <<<<"\n", "\t", "201-000-0", "\n">>>>,
                     <<Str("1-2-3")>>>>
    /\ sBlock.img = <<NoSrc, Src(Str("/img/1.png"))>>
    /\ sBlock.h5 = <<<<Str("Constituent 1")>>, <<Str("Constituent 2")>>>>
    /\ RawFields = (Str("EC Number") :> Str("201-000-0"))
                    @@ (Str("Image link") :> Str("/img/1.png"))
                    @@ (Str("Constituent") :> Str("Constituent 2"))

----------------------------------------------------------------------------
(* C14 *)

\* The title of a panel: its title text nodes, each trimmed, concatenated
\* (an empty one adds nothing)
RECURSIVE TrimmedConcat(_)
TrimmedConcat(texts) ==
    IF texts = <<>> THEN Empty ELSE trim(Head(texts)) \o TrimmedConcat(Tail(texts))

TitleOf(node) == TrimmedConcat(flat_map_text(node.title))

\* C14: every Record get(Composition(s)) returns has as name the title of the
\* panel that holds its block, whether or not the block has a "Name" pair of
\* its own; the title of a panel without title anchor is the empty string.
C14_NameIsPanelTitle ==
    \A sub \in Subsection :
        Returns(Composition(sub)) =>
            \A P \in {Pairs(sub)} :
                \A p \in P :
                    /\ Rank(P, p) <= Len(result.v)
                    /\ result.v[Rank(P, p)].name = TitleOf(Nodes[p[1]])
                    /\ Nodes[p[1]].title = <<>> => result.v[Rank(P, p)].name = Empty
                    /\ Nodes[p[1]].title = TitleA => result.v[Rank(P, p)].name = Str("A")

\* get(Composition(Boundary)) returned the Record of a block with the pair
\* ("Name", "block name") in a panel titled "A": its name is "A"
C14_Witness ==
    /\ Returns(Composition(Boundary)) /\ result.v # <<>>
    /\ <<2, 1>> \in Pairs(Boundary) /\ Rank(Pairs(Boundary), <<2, 1>>) = 1
    /\ Nodes[2].title = TitleA
    /\ Str("Name") \in DOMAIN WrapOf(<<2, 1>>)
    /\ WrapOf(<<2, 1>>)[Str("Name")] = Str("block name")
    /\ result.v[1].name = Str("A")

----------------------------------------------------------------------------
(* C15 *)

\* Panel i precedes every header that does not parse
Seen(i) == IsPanel(i) /\ \A h \in 1..(i - 1) : ~Unparsed(h)

SeenPairs ==
    UNION {{<<i, b>> : b \in 1..Len(Nodes[i].blocks)} :
              i \in {n \in 1..Len(Nodes) : Seen(n)}}

\* The Records of block p are in the cached answer of Composition(sub), at
\* the position of p among the blocks of the panels of sub
Contributes(p, sub) ==
    \E P \in {Pairs(sub)} :
        /\ p \in P
        /\ \E k \in {Rank(P, p)} :
              /\ k <= Len(data[Composition(sub)])
              /\ data[Composition(sub)][k] =
                    composition_record(Composition(sub), NamedWrapOf(p))

AllCompositionsCached == \A sub \in Subsection : Cached(Composition(sub))

\* C15: once the four Composition queries have been answered, in whatever
\* order, every block of every panel that precedes the first header that does
\* not parse has its Record in the answer of exactly one of the four, and the
\* four answers together hold as many Records as those panels have blocks:
\* no panel is left out and none is counted twice.
C15_QueriesPartitionPanels ==
    (document.ok /\ AllCompositionsCached) =>
        /\ \A p \in SeenPairs :
              Cardinality({sub \in Subsection : Contributes(p, sub)}) = 1
        /\ Len(data[Composition(Boundary)]) + Len(data[Composition(LegalEntity)])
              + Len(data[Composition(Generated)]) + Len(data[Composition(Other)])
           = Cardinality(SeenPairs)

\* A panel before any header, then a "Legal Entity Composition(s)" header and
\* a different panel; the four queries are answered, Composition(Other)
\* holds the Records of the first panel, Composition(LegalEntity) those of
\* the second, the other two hold none
C15_Witness ==
    /\ document.ok /\ AllCompositionsCached
    /\ Len(Nodes) = 3 /\ IsPanel(1) /\ IsHeader(2) /\ IsPanel(3)
    /\ Parsed(2) = LegalEntity /\ Nodes[1] # Nodes[3]
    /\ Len(data[Composition(Other)]) = Len(Nodes[1].blocks)
    /\ Len(data[Composition(LegalEntity)]) = Len(Nodes[3].blocks)
    /\ data[Composition(Boundary)] = <<>> /\ data[Composition(Generated)] = <<>>
    /\ Contributes(<<1, 1>>, Other) /\ Contributes(<<3, 1>>, LegalEntity)
    /\ result.section = Composition(Boundary)

====
